---- MODULE Spec2Model ----
(***************************************************************************)
(* Content manager (CRUD teaching application).                            *)
(*                                                                         *)
(* The model follows the page component Index (pages/Index.tsx), the form  *)
(* component ContentForm, the hook useDatabaseAnimation and the browser's  *)
(* timer list.  Strings that the code trims or measures are sequences of   *)
(* one-character strings; identifiers are strings; dates are integers on   *)
(* an abstract time axis read through the variable now.                    *)
(***************************************************************************)
EXTENDS Integers, Sequences, FiniteSets, TLC

VARIABLES
  contents,        \* Index: useState<Content[]>(initialContents)
  editingContent,  \* Index: Content | null, <<>> is null, <<c>> is c
  deleteDialog,    \* Index: {isOpen, contentId, contentTitle}
  formData,        \* ContentForm: {title, description, category}
  errors,          \* ContentForm: ValidationErrors, field -> message
  operation,       \* useDatabaseAnimation: CrudOperation, "null" is null
  isAnimating,     \* useDatabaseAnimation: boolean
  calls,           \* number of triggerAnimation calls so far
  timers,          \* pending setTimeout callbacks of Index, in
                   \* registration order
  animTimers,      \* pending setTimeout callbacks of useDatabaseAnimation,
                   \* in registration order
  now,             \* the wall clock read by Date.now() and new Date()
  toast,           \* title of the last toast shown, "" when none
  lastOp,          \* the request or callback that ran last, with the
                   \* number of records it matched
  storage,         \* auth: localStorage item crud_app_authenticated,
                   \* <<>> is null, <<t>> is the token t
  authenticated,   \* App: boolean | null, <<>> is null, <<b>> is b
  code,            \* LoginScreen: the code typed
  isLoading,       \* LoginScreen: boolean
  error,           \* LoginScreen: the message shown, "" when none
  isUnlocking,     \* LoginScreen: boolean
  verifying,       \* LoginScreen: the handleSubmit call suspended at its
                   \* await, <<>> when none, <<c>> with the code c
  unlockTimers     \* pending setTimeout callbacks of LoginScreen

\* the state of auth, App and LoginScreen
authVars == <<storage, authenticated, code, isLoading, error, isUnlocking,
              verifying, unlockTimers>>

vars == <<contents, editingContent, deleteDialog, formData, errors,
          operation, isAnimating, calls, timers, animTimers, now, toast,
          lastOp, storage, authenticated, code, isLoading, error,
          isUnlocking, verifying, unlockTimers>>

----------------------------------------------------------------------------
(* Bounds of the model. *)

\* last value of the clock
MaxNow == 6
\* largest number of create, update, delete and edit requests
MaxCalls == 4
\* largest number of pending callbacks of Index
MaxTimers == 2

----------------------------------------------------------------------------
(* Program constants. *)

\* new Date("2024-01-15") and new Date("2024-01-16"), on the abstract axis
Date20240115 == 1
Date20240116 == 2

\* setTimeout delays, in milliseconds
MutationDelay == 800
EditDelay == 500
animationDuration == 1000
ResetDelay == 1000

TitleMinLength == 3
TitleMaxLength == 100
DescriptionMinLength == 10

\* values of the category select
categories == {"articolo", "tutorial", "nota", "idea"}

Fields == {"title", "description", "category"}

\* characters String.prototype.trim removes
WhiteSpace == {" ", "\t", "\n"}

\* "Introduzione al CRUD"
Seed1Title ==
  <<"I","n","t","r","o","d","u","z","i","o","n","e"," ","a","l"," ","C",
    "R","U","D">>
\* "CRUD e l'acronimo di Create, Read, Update, Delete. Sono le quattro
\* operazioni fondamentali per gestire dati persistenti in qualsiasi
\* applicazione."
Seed1Description ==
  <<"C","R","U","D"," ","e"," ","l","'","a","c","r","o","n","i","m","o",
    " ","d","i"," ","C","r","e","a","t","e",","," ","R","e","a","d",",",
    " ","U","p","d","a","t","e",","," ","D","e","l","e","t","e","."," ",
    "S","o","n","o"," ","l","e"," ","q","u","a","t","t","r","o"," ","o",
    "p","e","r","a","z","i","o","n","i"," ","f","o","n","d","a","m","e",
    "n","t","a","l","i"," ","p","e","r"," ","g","e","s","t","i","r","e",
    " ","d","a","t","i"," ","p","e","r","s","i","s","t","e","n","t","i",
    " ","i","n"," ","q","u","a","l","s","i","a","s","i"," ","a","p","p",
    "l","i","c","a","z","i","o","n","e",".">>
\* "La validazione e importante"
Seed2Title ==
  <<"L","a"," ","v","a","l","i","d","a","z","i","o","n","e"," ","e"," ",
    "i","m","p","o","r","t","a","n","t","e">>
\* "Validare gli input previene errori, attacchi e dati corrotti. Sempre
\* validare sia lato client che lato server!"
Seed2Description ==
  <<"V","a","l","i","d","a","r","e"," ","g","l","i"," ","i","n","p","u",
    "t"," ","p","r","e","v","i","e","n","e"," ","e","r","r","o","r","i",
    ","," ","a","t","t","a","c","c","h","i"," ","e"," ","d","a","t","i",
    " ","c","o","r","r","o","t","t","i","."," ","S","e","m","p","r","e",
    " ","v","a","l","i","d","a","r","e"," ","s","i","a"," ","l","a","t",
    "o"," ","c","l","i","e","n","t"," ","c","h","e"," ","l","a","t","o",
    " ","s","e","r","v","e","r","!">>

\* variant: the second seed record carries an updatedAt of a later year
initialContentsLater ==
  << [id |-> "1", title |-> Seed1Title, description |-> Seed1Description,
      category |-> "tutorial",
      createdAt |-> Date20240115, updatedAt |-> Date20240115],
     [id |-> "2", title |-> Seed2Title, description |-> Seed2Description,
      category |-> "nota",
      createdAt |-> Date20240116, updatedAt |-> Date20240116 + MaxNow] >>

initialContents ==
  << [id |-> "1", title |-> Seed1Title, description |-> Seed1Description,
      category |-> "tutorial",
      createdAt |-> Date20240115, updatedAt |-> Date20240115],
     [id |-> "2", title |-> Seed2Title, description |-> Seed2Description,
      category |-> "nota",
      createdAt |-> Date20240116, updatedAt |-> Date20240116] >>

----------------------------------------------------------------------------
(* Values typed into the form. *)

TitleInputs == { <<" ", "a", "b", "c", " ">> }

DescriptionInputs == { <<" ", "a", "b", "c", "d", "e", "f", "g", "h", "i", "j">> }

CategoryInputs == {"idea"}

----------------------------------------------------------------------------
(* String.prototype.trim *)

RECURSIVE TrimStart(_)
TrimStart(s) ==
  IF s # <<>> /\ Head(s) \in WhiteSpace THEN TrimStart(Tail(s)) ELSE s

RECURSIVE TrimEnd(_)
TrimEnd(s) ==
  IF s # <<>> /\ s[Len(s)] \in WhiteSpace
  THEN TrimEnd(SubSeq(s, 1, Len(s) - 1))
  ELSE s

Trim(s) == TrimEnd(TrimStart(s))

\* Number.prototype.toString of Date.now()
DateNowToString(t) == ToString(t)

----------------------------------------------------------------------------
(* ContentForm.validate *)

\* an absent key of ValidationErrors
NoError == ""

NoErrors == [f \in {} |-> NoError]

EmptyForm == [title |-> <<>>, description |-> <<>>, category |-> ""]

\* variant: the length of the title is taken without trim()
TitleErrorUntrimmed(fd) ==
  IF fd.title = <<>> THEN "Il titolo e obbligatorio"
  ELSE IF Len(fd.title) < TitleMinLength
       THEN "Il titolo deve avere almeno 3 caratteri"
  ELSE IF Len(fd.title) > TitleMaxLength
       THEN "Il titolo non puo superare 100 caratteri"
  ELSE NoError

TitleError(fd) ==
  IF Trim(fd.title) = <<>> THEN "Il titolo e obbligatorio"
  ELSE IF Len(Trim(fd.title)) < TitleMinLength
       THEN "Il titolo deve avere almeno 3 caratteri"
  ELSE IF Len(Trim(fd.title)) > TitleMaxLength
       THEN "Il titolo non puo superare 100 caratteri"
  ELSE NoError

DescriptionError(fd) ==
  IF Trim(fd.description) = <<>> THEN "La descrizione e obbligatoria"
  ELSE IF Len(Trim(fd.description)) < DescriptionMinLength
       THEN "La descrizione deve avere almeno 10 caratteri"
  ELSE NoError

\* variant: a category outside categories is an error too
CategoryErrorEnumerated(fd) ==
  IF fd.category \notin categories
  THEN "Seleziona una categoria" ELSE NoError

CategoryError(fd) ==
  IF fd.category = "" THEN "Seleziona una categoria" ELSE NoError

FieldError(f, fd) ==
  CASE f = "title" -> TitleError(fd)
    [] f = "description" -> DescriptionError(fd)
    [] f = "category" -> CategoryError(fd)

\* newErrors of validate: the fields in error with their messages
validate(fd) ==
  [f \in {g \in Fields : FieldError(g, fd) # NoError} |-> FieldError(f, fd)]

\* variant: the fields are handed over as typed, without trim()
SubmittedDataUntrimmed(fd) ==
  [title |-> fd.title, description |-> fd.description,
   category |-> fd.category]

\* the ContentFormData handed to onSubmit
SubmittedData(fd) ==
  [title |-> Trim(fd.title), description |-> Trim(fd.description),
   category |-> fd.category]

----------------------------------------------------------------------------
(* The timer list. *)

Min(a, b) == IF a < b THEN a ELSE b

RemoveAt(q, i) == SubSeq(q, 1, i - 1) \o SubSeq(q, i + 1, Len(q))

\* A callback runs after its delay has elapsed, and callbacks run in the
\* order of their due times, equal due times in registration order: a
\* timer registered earlier with a delay that is not larger is due earlier.
CanFire(i) ==
  /\ now > timers[i].regAt
  /\ \A j \in 1..(i - 1) : timers[j].delay > timers[i].delay

\* The callbacks of the hook all have a delay of 1000 ms (Index passes
\* animationDuration = 1000), so they run in registration order; they share
\* no state with the callbacks of Index and are kept in a list of their own.
CanFireAnim(i) == i = 1 /\ now > animTimers[1].regAt

\* guard of the handlers that register timers: the request is within the
\* bounds and the clock can still reach the due time
CanSchedule ==
  /\ calls < MaxCalls
  /\ Len(timers) < MaxTimers
  /\ now < MaxNow

\* useDatabaseAnimation.triggerAnimation
triggerAnimation(op) ==
  /\ operation' = op
  /\ isAnimating' = TRUE
  /\ animTimers' = Append(animTimers,
       [kind |-> "animEnd", delay |-> animationDuration, regAt |-> now])
  /\ calls' = calls + 1

\* the useEffect of ContentForm on [editingContent]
FormEffect(newEditing) ==
  IF newEditing = editingContent
  THEN UNCHANGED <<formData, errors>>
  ELSE /\ formData' = IF newEditing = <<>>
                      THEN EmptyForm
                      ELSE [title |-> newEditing[1].title,
                            description |-> newEditing[1].description,
                            category |-> newEditing[1].category]
       /\ errors' = NoErrors

----------------------------------------------------------------------------
(* The state after the first render. *)

\* LoginScreen as it mounts
LoginMounted ==
  /\ code = <<>>
  /\ isLoading = FALSE
  /\ error = ""
  /\ isUnlocking = FALSE
  /\ verifying = <<>>
  /\ unlockTimers = <<>>

\* App shows Index: a login of an earlier time has left its token
IndexShown ==
  /\ storage = <<DateNowToString(Date20240116)>>
  /\ authenticated = <<TRUE>>
  /\ LoginMounted

\* value of lastOp after a step that is neither a request nor a callback
Other == [name |-> "other", matched |-> 0]

\* number of records of the collection with the given id
Matched(id) == Cardinality({k \in 1..Len(contents) : contents[k].id = id})

ClosedDialog == [isOpen |-> FALSE, contentId |-> "", contentTitle |-> <<>>]

Init ==
  /\ contents = initialContents
  /\ editingContent = <<>>
  /\ deleteDialog = ClosedDialog
  /\ formData = EmptyForm
  /\ errors = NoErrors
  /\ operation = "null"
  /\ isAnimating = FALSE
  /\ calls = 0
  /\ timers = <<>>
  /\ animTimers = <<>>
  /\ now = Date20240116 + 1
  /\ toast = ""
  /\ lastOp = Other
  /\ IndexShown

----------------------------------------------------------------------------
(* The clock. *)

Tick ==
  /\ now < MaxNow
  /\ now' = now + 1
  /\ lastOp' = Other
  /\ UNCHANGED <<contents, editingContent, deleteDialog, formData, errors,
                 operation, isAnimating, calls, timers, animTimers, toast>>
  /\ UNCHANGED authVars

----------------------------------------------------------------------------
(* ContentForm: the inputs. *)

\* onChange of the title input
ChangeTitle(v) ==
  /\ formData' = [formData EXCEPT !.title = v]
  /\ lastOp' = Other
  /\ UNCHANGED <<contents, editingContent, deleteDialog, errors, operation,
                 isAnimating, calls, timers, animTimers, now, toast>>
  /\ UNCHANGED authVars

\* onChange of the description textarea
ChangeDescription(v) ==
  /\ formData' = [formData EXCEPT !.description = v]
  /\ lastOp' = Other
  /\ UNCHANGED <<contents, editingContent, deleteDialog, errors, operation,
                 isAnimating, calls, timers, animTimers, now, toast>>
  /\ UNCHANGED authVars

\* onValueChange of the category select
ChangeCategory(v) ==
  /\ formData' = [formData EXCEPT !.category = v]
  /\ errors' = [f \in (DOMAIN errors) \ {"category"} |-> errors[f]]
  /\ lastOp' = Other
  /\ UNCHANGED <<contents, editingContent, deleteDialog, operation,
                 isAnimating, calls, timers, animTimers, now, toast>>
  /\ UNCHANGED authVars

handleBlur ==
  /\ errors' = validate(formData)
  /\ lastOp' = [name |-> "blur", matched |-> 0]
  /\ UNCHANGED <<contents, editingContent, deleteDialog, formData, operation,
                 isAnimating, calls, timers, animTimers, now, toast>>
  /\ UNCHANGED authVars

----------------------------------------------------------------------------
(* Index: CREATE, UPDATE, DELETE and their deferred mutations. *)

\* variant: the mutation is applied in the handler, with no callback
handleCreateEager(data) ==
  \E c \in now..Min(now + 1, MaxNow) :
    \E u \in c..Min(now + 1, MaxNow) :
      LET newContent ==
            [id |-> DateNowToString(now), title |-> data.title,
             description |-> data.description, category |-> data.category,
             createdAt |-> c, updatedAt |-> u]
      IN /\ triggerAnimation("create")
         /\ contents' = <<newContent>> \o contents
         /\ toast' = "Contenuto creato!"
         /\ now' = u
         /\ UNCHANGED <<timers, editingContent, deleteDialog>>

\* Date.now() for the id, then new Date() twice; the clock may move on
\* between the reads
handleCreate(data) ==
  \E c \in now..Min(now + 1, MaxNow) :
    \E u \in c..Min(now + 1, MaxNow) :
      LET newContent ==
            [id |-> DateNowToString(now), title |-> data.title,
             description |-> data.description, category |-> data.category,
             createdAt |-> c, updatedAt |-> u]
      IN /\ triggerAnimation("create")
         /\ timers' = Append(timers,
              [kind |-> "create", delay |-> MutationDelay, regAt |-> u,
               newContent |-> newContent])
         /\ now' = u
         /\ UNCHANGED <<contents, editingContent, deleteDialog, toast>>

handleUpdate(data) ==
  /\ editingContent # <<>>
  /\ triggerAnimation("update")
  /\ timers' = Append(timers,
       [kind |-> "update", delay |-> MutationDelay, regAt |-> now,
        id |-> editingContent[1].id, data |-> data])
  /\ UNCHANGED <<contents, editingContent, deleteDialog, now, toast>>

handleFormSubmit(data) ==
  IF editingContent # <<>> THEN handleUpdate(data) ELSE handleCreate(data)

\* variant: the result of validate is not tested
handleSubmitUnchecked ==
  /\ errors' = validate(formData)
  /\ CanSchedule
  /\ handleFormSubmit(SubmittedData(formData))
  /\ formData' = IF editingContent = <<>> THEN EmptyForm ELSE formData
  /\ lastOp' = [name |-> IF editingContent = <<>>
                          THEN "submitCreate" ELSE "submitUpdate",
                 matched |-> 0]
  /\ UNCHANGED authVars

\* ContentForm.handleSubmit
handleSubmit ==
  /\ errors' = validate(formData)
  /\ IF validate(formData) = NoErrors
     THEN /\ CanSchedule
          /\ handleFormSubmit(SubmittedData(formData))
          /\ formData' = IF editingContent = <<>> THEN EmptyForm ELSE formData
          /\ lastOp' = [name |-> IF editingContent = <<>>
                                   THEN "submitCreate" ELSE "submitUpdate",
                          matched |-> 0]
     ELSE /\ lastOp' = [name |-> "submitInvalid", matched |-> 0]
          /\ UNCHANGED <<contents, editingContent, deleteDialog, formData,
                         operation, isAnimating, calls, timers, animTimers,
                         now, toast>>
  /\ UNCHANGED authVars

\* variant: the new record is put at the end of the collection
CreateTimeoutAppend(i) ==
  /\ timers[i].kind = "create"
  /\ CanFire(i)
  /\ contents' = Append(contents, timers[i].newContent)
  /\ toast' = "Contenuto creato!"
  /\ timers' = RemoveAt(timers, i)
  /\ lastOp' = [name |-> "createTimeout", matched |-> 0]
  /\ UNCHANGED <<editingContent, deleteDialog, formData, errors, operation,
                 isAnimating, calls, animTimers, now>>
  /\ UNCHANGED authVars

\* variant: the callback is registered with setInterval and stays pending
CreateTimeoutRepeat(i) ==
  /\ timers[i].kind = "create"
  /\ CanFire(i)
  /\ contents' = <<timers[i].newContent>> \o contents
  /\ toast' = "Contenuto creato!"
  /\ lastOp' = [name |-> "createTimeout", matched |-> 0]
  /\ UNCHANGED <<editingContent, deleteDialog, formData, errors, operation,
                 isAnimating, calls, timers, animTimers, now>>
  /\ UNCHANGED authVars

\* the callback handleCreate registers
CreateTimeout(i) ==
  /\ timers[i].kind = "create"
  /\ CanFire(i)
  /\ contents' = <<timers[i].newContent>> \o contents
  /\ toast' = "Contenuto creato!"
  /\ timers' = RemoveAt(timers, i)
  /\ lastOp' = [name |-> "createTimeout", matched |-> 0]
  /\ UNCHANGED <<editingContent, deleteDialog, formData, errors, operation,
                 isAnimating, calls, animTimers, now>>
  /\ UNCHANGED authVars

\* variant: an update that matches no record adds the record (upsert)
UpdateTimeoutUpsert(i) ==
  /\ timers[i].kind = "update"
  /\ CanFire(i)
  /\ contents' =
       IF \E k \in 1..Len(contents) : contents[k].id = timers[i].id
       THEN [k \in 1..Len(contents) |->
               IF contents[k].id = timers[i].id
               THEN [contents[k] EXCEPT
                       !.title = timers[i].data.title,
                       !.description = timers[i].data.description,
                       !.category = timers[i].data.category,
                       !.updatedAt = now]
               ELSE contents[k]]
       ELSE Append(contents,
              [id |-> timers[i].id, title |-> timers[i].data.title,
               description |-> timers[i].data.description,
               category |-> timers[i].data.category,
               createdAt |-> now, updatedAt |-> now])
  /\ editingContent' = <<>>
  /\ FormEffect(<<>>)
  /\ toast' = "Contenuto aggiornato!"
  /\ timers' = RemoveAt(timers, i)
  /\ lastOp' = [name |-> "updateTimeout", matched |-> Matched(timers[i].id)]
  /\ UNCHANGED <<deleteDialog, operation, isAnimating, calls, animTimers,
                 now>>
  /\ UNCHANGED authVars

\* variant: the callback stamps createdAt instead of updatedAt
UpdateTimeoutCreatedAt(i) ==
  /\ timers[i].kind = "update"
  /\ CanFire(i)
  /\ contents' =
       [k \in 1..Len(contents) |->
          IF contents[k].id = timers[i].id
          THEN [contents[k] EXCEPT !.title = timers[i].data.title,
                                   !.description = timers[i].data.description,
                                   !.category = timers[i].data.category,
                                   !.createdAt = now]
          ELSE contents[k]]
  /\ editingContent' = <<>>
  /\ FormEffect(<<>>)
  /\ toast' = "Contenuto aggiornato!"
  /\ timers' = RemoveAt(timers, i)
  /\ lastOp' = [name |-> "updateTimeout", matched |-> Matched(timers[i].id)]
  /\ UNCHANGED <<deleteDialog, operation, isAnimating, calls, animTimers,
                 now>>
  /\ UNCHANGED authVars

\* variant: the callback reads editingContent as it is when it runs, not as
\* it was at the submission
UpdateTimeoutCurrent(i) ==
  /\ timers[i].kind = "update"
  /\ CanFire(i)
  /\ contents' =
       [k \in 1..Len(contents) |->
          IF editingContent # <<>> /\ contents[k].id = editingContent[1].id
          THEN [contents[k] EXCEPT !.title = timers[i].data.title,
                                   !.description = timers[i].data.description,
                                   !.category = timers[i].data.category,
                                   !.updatedAt = now]
          ELSE contents[k]]
  /\ editingContent' = <<>>
  /\ FormEffect(<<>>)
  /\ toast' = "Contenuto aggiornato!"
  /\ timers' = RemoveAt(timers, i)
  /\ lastOp' = [name |-> "updateTimeout",
                 matched |-> IF editingContent = <<>> THEN 0
                             ELSE Matched(editingContent[1].id)]
  /\ UNCHANGED <<deleteDialog, operation, isAnimating, calls, animTimers,
                 now>>
  /\ UNCHANGED authVars

\* the callback handleUpdate registers
UpdateTimeout(i) ==
  /\ timers[i].kind = "update"
  /\ CanFire(i)
  /\ contents' =
       [k \in 1..Len(contents) |->
          IF contents[k].id = timers[i].id
          THEN [contents[k] EXCEPT !.title = timers[i].data.title,
                                   !.description = timers[i].data.description,
                                   !.category = timers[i].data.category,
                                   !.updatedAt = now]
          ELSE contents[k]]
  /\ editingContent' = <<>>
  /\ FormEffect(<<>>)
  /\ toast' = "Contenuto aggiornato!"
  /\ timers' = RemoveAt(timers, i)
  /\ lastOp' = [name |-> "updateTimeout", matched |-> Matched(timers[i].id)]
  /\ UNCHANGED <<deleteDialog, operation, isAnimating, calls, animTimers,
                 now>>
  /\ UNCHANGED authVars

handleDelete ==
  /\ deleteDialog.isOpen
  /\ CanSchedule
  /\ triggerAnimation("delete")
  /\ timers' = Append(timers,
       [kind |-> "delete", delay |-> MutationDelay, regAt |-> now,
        contentId |-> deleteDialog.contentId])
  /\ lastOp' = [name |-> "handleDelete", matched |-> 0]
  /\ UNCHANGED <<contents, editingContent, deleteDialog, formData, errors,
                 now, toast>>
  /\ UNCHANGED authVars

\* variant: the filter keeps the records with the id
DeleteTimeoutKeep(i) ==
  /\ timers[i].kind = "delete"
  /\ CanFire(i)
  /\ contents' = SelectSeq(contents, LAMBDA c : c.id = timers[i].contentId)
  /\ deleteDialog' = ClosedDialog
  /\ toast' = "Contenuto eliminato!"
  /\ timers' = RemoveAt(timers, i)
  /\ lastOp' = [name |-> "deleteTimeout",
                 matched |-> Matched(timers[i].contentId)]
  /\ UNCHANGED <<editingContent, formData, errors, operation, isAnimating,
                 calls, animTimers, now>>
  /\ UNCHANGED authVars

\* variant: findIndex and splice, where an index of -1 removes the last
\* record
DeleteTimeoutSplice(i) ==
  /\ timers[i].kind = "delete"
  /\ CanFire(i)
  /\ contents' =
       IF \E k \in 1..Len(contents) : contents[k].id = timers[i].contentId
       THEN RemoveAt(contents,
              CHOOSE k \in 1..Len(contents) :
                /\ contents[k].id = timers[i].contentId
                /\ \A m \in 1..(k - 1) : contents[m].id # timers[i].contentId)
       ELSE SubSeq(contents, 1, Len(contents) - 1)
  /\ deleteDialog' = ClosedDialog
  /\ toast' = "Contenuto eliminato!"
  /\ timers' = RemoveAt(timers, i)
  /\ lastOp' = [name |-> "deleteTimeout",
                 matched |-> Matched(timers[i].contentId)]
  /\ UNCHANGED <<editingContent, formData, errors, operation, isAnimating,
                 calls, animTimers, now>>
  /\ UNCHANGED authVars

\* variant: the callback reads the dialog as it is when it runs, not as it
\* was at the confirmation
DeleteTimeoutCurrent(i) ==
  /\ timers[i].kind = "delete"
  /\ CanFire(i)
  /\ contents' = SelectSeq(contents, LAMBDA c : c.id # deleteDialog.contentId)
  /\ deleteDialog' = ClosedDialog
  /\ toast' = "Contenuto eliminato!"
  /\ timers' = RemoveAt(timers, i)
  /\ lastOp' = [name |-> "deleteTimeout",
                 matched |-> Matched(deleteDialog.contentId)]
  /\ UNCHANGED <<editingContent, formData, errors, operation, isAnimating,
                 calls, animTimers, now>>
  /\ UNCHANGED authVars

\* the callback handleDelete registers
DeleteTimeout(i) ==
  /\ timers[i].kind = "delete"
  /\ CanFire(i)
  /\ contents' = SelectSeq(contents, LAMBDA c : c.id # timers[i].contentId)
  /\ deleteDialog' = ClosedDialog
  /\ toast' = "Contenuto eliminato!"
  /\ timers' = RemoveAt(timers, i)
  /\ lastOp' = [name |-> "deleteTimeout",
                 matched |-> Matched(timers[i].contentId)]
  /\ UNCHANGED <<editingContent, formData, errors, operation, isAnimating,
                 calls, animTimers, now>>
  /\ UNCHANGED authVars

----------------------------------------------------------------------------
(* Index: the delete dialog and edit mode. *)

\* onDelete of a card: the id of a record of the list
openDeleteDialog(id) ==
  /\ IF \E k \in 1..Len(contents) : contents[k].id = id
     THEN LET k == CHOOSE n \in 1..Len(contents) :
                     /\ contents[n].id = id
                     /\ \A m \in 1..(n - 1) : contents[m].id # id
          IN deleteDialog' = [isOpen |-> TRUE, contentId |-> id,
                              contentTitle |-> contents[k].title]
     ELSE UNCHANGED deleteDialog
  /\ lastOp' = Other
  /\ UNCHANGED <<contents, editingContent, formData, errors, operation,
                 isAnimating, calls, timers, animTimers, now, toast>>
  /\ UNCHANGED authVars

\* onCancel of DeleteConfirmDialog
CancelDelete ==
  /\ deleteDialog.isOpen
  /\ deleteDialog' = ClosedDialog
  /\ lastOp' = Other
  /\ UNCHANGED <<contents, editingContent, formData, errors, operation,
                 isAnimating, calls, timers, animTimers, now, toast>>
  /\ UNCHANGED authVars

handleStartEdit(content) ==
  /\ CanSchedule
  /\ triggerAnimation("read")
  /\ timers' = Append(timers,
       [kind |-> "edit", delay |-> EditDelay, regAt |-> now,
        content |-> content])
  /\ lastOp' = [name |-> "handleStartEdit", matched |-> 0]
  /\ UNCHANGED <<contents, editingContent, deleteDialog, formData, errors,
                 now, toast>>
  /\ UNCHANGED authVars

\* the callback handleStartEdit registers
EditTimeout(i) ==
  /\ timers[i].kind = "edit"
  /\ CanFire(i)
  /\ editingContent' = <<timers[i].content>>
  /\ FormEffect(<<timers[i].content>>)
  /\ timers' = RemoveAt(timers, i)
  /\ lastOp' = [name |-> "editTimeout", matched |-> 0]
  /\ UNCHANGED <<contents, deleteDialog, operation, isAnimating, calls,
                 animTimers, now, toast>>
  /\ UNCHANGED authVars

\* onCancelEdit, the button shown in edit mode
CancelEdit ==
  /\ editingContent # <<>>
  /\ editingContent' = <<>>
  /\ FormEffect(<<>>)
  /\ lastOp' = Other
  /\ UNCHANGED <<contents, deleteDialog, operation, isAnimating, calls,
                 timers, animTimers, now, toast>>
  /\ UNCHANGED authVars

----------------------------------------------------------------------------
(* useDatabaseAnimation: the two nested callbacks of triggerAnimation. *)

\* variant: the first callback does not register the second one
AnimEndTimeoutNoReset(i) ==
  /\ animTimers[i].kind = "animEnd"
  /\ CanFireAnim(i)
  /\ isAnimating' = FALSE
  /\ animTimers' = RemoveAt(animTimers, i)
  /\ lastOp' = Other
  /\ UNCHANGED <<contents, editingContent, deleteDialog, formData, errors,
                 operation, calls, timers, now, toast>>
  /\ UNCHANGED authVars

AnimEndTimeout(i) ==
  /\ animTimers[i].kind = "animEnd"
  /\ CanFireAnim(i)
  /\ isAnimating' = FALSE
  /\ animTimers' = Append(RemoveAt(animTimers, i),
       [kind |-> "animReset", delay |-> ResetDelay, regAt |-> now])
  /\ lastOp' = Other
  /\ UNCHANGED <<contents, editingContent, deleteDialog, formData, errors,
                 operation, calls, timers, now, toast>>
  /\ UNCHANGED authVars

AnimResetTimeout(i) ==
  /\ animTimers[i].kind = "animReset"
  /\ CanFireAnim(i)
  /\ operation' = "null"
  /\ animTimers' = RemoveAt(animTimers, i)
  /\ lastOp' = Other
  /\ UNCHANGED <<contents, editingContent, deleteDialog, formData, errors,
                 isAnimating, calls, timers, now, toast>>
  /\ UNCHANGED authVars

----------------------------------------------------------------------------
(* The page: every handler and callback. *)

Next ==
  \/ Tick
  \/ \E v \in TitleInputs : ChangeTitle(v)
  \/ \E v \in DescriptionInputs : ChangeDescription(v)
  \/ \E v \in CategoryInputs : ChangeCategory(v)
  \/ handleBlur
  \/ handleSubmit
  \/ \E k \in 1..Len(contents) : openDeleteDialog(contents[k].id)
  \/ CancelDelete
  \/ handleDelete
  \/ \E k \in 1..Len(contents) : handleStartEdit(contents[k])
  \/ CancelEdit
  \/ \E i \in 1..Len(timers) : CreateTimeout(i)
  \/ \E i \in 1..Len(timers) : UpdateTimeout(i)
  \/ \E i \in 1..Len(timers) : DeleteTimeout(i)
  \/ \E i \in 1..Len(timers) : EditTimeout(i)
  \/ \E i \in 1..Len(animTimers) : AnimEndTimeout(i)
  \/ \E i \in 1..Len(animTimers) : AnimResetTimeout(i)

Spec == Init /\ [][Next]_vars

----------------------------------------------------------------------------
(* The content manager: the steps of Index and ContentForm.  The callbacks *)
(* of useDatabaseAnimation write operation and isAnimating only, which no  *)
(* step of Index or ContentForm reads; they are left out here.  The user   *)
(* makes one request less than MaxCalls and the clock stops one step       *)
(* before MaxNow.                                                          *)

NextStore ==
  \/ (now < MaxNow - 1 /\ Tick)
  \/ \E v \in TitleInputs : ChangeTitle(v)
  \/ \E v \in DescriptionInputs : ChangeDescription(v)
  \/ \E v \in CategoryInputs : ChangeCategory(v)
  \/ (calls < MaxCalls - 1 /\ handleSubmit)
  \/ \E k \in 1..Len(contents) : openDeleteDialog(contents[k].id)
  \/ CancelDelete
  \/ (calls < MaxCalls - 1 /\ handleDelete)
  \/ \E k \in 1..Len(contents) :
       (calls < MaxCalls - 1 /\ handleStartEdit(contents[k]))
  \/ CancelEdit
  \/ \E i \in 1..Len(timers) : CreateTimeout(i)
  \/ \E i \in 1..Len(timers) : UpdateTimeout(i)
  \/ \E i \in 1..Len(timers) : DeleteTimeout(i)
  \/ \E i \in 1..Len(timers) : EditTimeout(i)

SpecStore == Init /\ [][NextStore]_vars

(* The content manager with a user who creates records and edits them,     *)
(* up to MaxCalls requests and MaxNow.                                     *)

NextEdit ==
  \/ Tick
  \/ \E v \in TitleInputs : ChangeTitle(v)
  \/ \E v \in DescriptionInputs : ChangeDescription(v)
  \/ \E v \in CategoryInputs : ChangeCategory(v)
  \/ handleSubmit
  \/ \E k \in 1..Len(contents) : handleStartEdit(contents[k])
  \/ \E i \in 1..Len(timers) : CreateTimeout(i)
  \/ \E i \in 1..Len(timers) : UpdateTimeout(i)
  \/ \E i \in 1..Len(timers) : EditTimeout(i)

SpecEdit == Init /\ [][NextEdit]_vars

----------------------------------------------------------------------------
(* The form: a user who types valid and invalid values, in create mode and *)
(* in edit mode, and makes up to MaxCalls - 2 requests.                    *)

FormTitleInputs == TitleInputs \cup { <<>>, <<"a", "b", " ">> }

FormDescriptionInputs == DescriptionInputs \cup { <<" ", "d", "e", "f">> }

NextForm ==
  \/ (now < MaxNow - 1 /\ Tick)
  \/ \E v \in FormTitleInputs : ChangeTitle(v)
  \/ \E v \in FormDescriptionInputs : ChangeDescription(v)
  \/ \E v \in CategoryInputs : ChangeCategory(v)
  \/ handleBlur
  \/ (calls < MaxCalls - 2 /\ handleSubmit)
  \/ \E k \in 1..Len(contents) :
       (calls < MaxCalls - 2 /\ handleStartEdit(contents[k]))
  \/ CancelEdit
  \/ \E i \in 1..Len(timers) : CreateTimeout(i)
  \/ \E i \in 1..Len(timers) : UpdateTimeout(i)
  \/ \E i \in 1..Len(timers) : EditTimeout(i)

SpecForm == Init /\ [][NextForm]_vars

----------------------------------------------------------------------------
(* The form in create mode: a user who types valid and invalid values and  *)
(* submits up to MaxCalls - 2 times, the last time two steps before MaxNow, *)
(* which leaves the callback of the last creation the time to run.         *)

NextCreate ==
  \/ Tick
  \/ \E v \in FormTitleInputs : ChangeTitle(v)
  \/ \E v \in FormDescriptionInputs : ChangeDescription(v)
  \/ \E v \in CategoryInputs : ChangeCategory(v)
  \/ (now < MaxNow - 1 /\ calls < MaxCalls - 2 /\ handleSubmit)
  \/ \E i \in 1..Len(timers) : CreateTimeout(i)

SpecCreate == Init /\ [][NextCreate]_vars

\* the pending callbacks run and the clock moves on
SpecCreateFair ==
  /\ SpecCreate
  /\ WF_vars(Tick)
  /\ WF_vars(\E i \in 1..Len(timers) : CreateTimeout(i))

----------------------------------------------------------------------------
(* ContentForm.validate as a function of the form data: the form holds any *)
(* of the values below and validate runs on it (handleBlur).               *)

Repeat(c, n) == [i \in 1..n |-> c]

ValidateTitles ==
  { <<>>, <<" ", " ">>, <<"a", "b">>, <<" ", "a", "b", " ">>,
    <<"a", "b", "c">>, <<" ", "a", "b", "c", " ">>,
    Repeat("a", TitleMaxLength), Repeat("a", TitleMaxLength + 1),
    <<" ">> \o Repeat("a", TitleMaxLength) \o <<" ">> }

ValidateDescriptions ==
  { <<>>, <<" ", "\t", "\n">>, Repeat("d", DescriptionMinLength - 1),
    <<" ">> \o Repeat("d", DescriptionMinLength - 1) \o <<" ">>,
    Repeat("d", DescriptionMinLength),
    <<" ">> \o Repeat("d", DescriptionMinLength) \o <<" ">> }

ValidateCategories == categories \cup {"", "altro", "Tutorial", " "}

InitValidate ==
  /\ contents = initialContents
  /\ editingContent = <<>>
  /\ deleteDialog = ClosedDialog
  /\ formData \in [title : ValidateTitles, description : ValidateDescriptions,
                   category : ValidateCategories]
  /\ errors = NoErrors
  /\ operation = "null"
  /\ isAnimating = FALSE
  /\ calls = 0
  /\ timers = <<>>
  /\ animTimers = <<>>
  /\ now = Date20240116 + 1
  /\ toast = ""
  /\ lastOp = Other
  /\ IndexShown

NextValidate == handleBlur

SpecValidate == InitValidate /\ [][NextValidate]_vars

----------------------------------------------------------------------------
(* useDatabaseAnimation on its own: triggerAnimation called with any       *)
(* operation at any moment, up to MaxCalls calls.  A callback of the hook  *)
(* runs when it is due: the clock does not go past a callback whose delay  *)
(* has elapsed, and the calls stop two steps before MaxNow, which leaves   *)
(* the two callbacks of the last call the time to run.                     *)

\* the operations of CrudOperation other than null
CrudOperations == {"create", "read", "update", "delete"}

\* a call of triggerAnimation(op)
CallTriggerAnimation(op) ==
  /\ calls < MaxCalls
  /\ now < MaxNow - 1
  /\ triggerAnimation(op)
  /\ lastOp' = [name |-> "triggerAnimation", matched |-> 0]
  /\ UNCHANGED <<contents, editingContent, deleteDialog, formData, errors,
                 timers, now, toast>>
  /\ UNCHANGED authVars

\* the clock moves on when no callback of the hook is due
TickHook ==
  /\ \A i \in 1..Len(animTimers) : now <= animTimers[i].regAt
  /\ Tick

NextHook ==
  \/ TickHook
  \/ \E op \in CrudOperations : CallTriggerAnimation(op)
  \/ \E i \in 1..Len(animTimers) : AnimEndTimeout(i)
  \/ \E i \in 1..Len(animTimers) : AnimResetTimeout(i)

SpecHook == Init /\ [][NextHook]_vars

\* the pending callbacks of the hook run and the clock moves on
SpecHookFair ==
  /\ SpecHook
  /\ WF_vars(TickHook)
  /\ WF_vars(\E i \in 1..Len(animTimers) : AnimEndTimeout(i))
  /\ WF_vars(\E i \in 1..Len(animTimers) : AnimResetTimeout(i))

----------------------------------------------------------------------------
(* auth: the access code and the session marker. *)

\* the state of Index and ContentForm that no step of auth, App or
\* LoginScreen touches
indexVars == <<contents, editingContent, deleteDialog, formData, errors,
               operation, isAnimating, calls, timers, animTimers, toast>>

\* the code that verifyAccessCode hashes for the comparison
CorrectCode ==
  << "g", "T", "6", "@", "Q", "p", "!", "R", "1", "Z", "$", "u", "N", "9",
     "e", "#", "X", "^", "c", "D", "2", "s", "L", "%", "h", "Y", "&", "v",
     "J", "m", "*", "W", "+", "K", "7", "B", "~", "A", "=", "F", "4", "q",
     "-", "U", "o", "_", "r", "P", ")", "k", "8", "S", "]", "3", "C", "0",
     "{", "I", "?", "E" >>

\* the two hash constants of auth, which verifyAccessCode does not read
CORRECT_CODE_HASH ==
  << "e3b0c44298fc1c149afbf4c8996fb92427ae41e4649b934ca495991b7852b855_placeholder" >>

correctHash ==
  << "a1f3c8e2b9d4567890abcdef1234567890abcdef1234567890abcdef12345678" >>

UnlockDelay == 1500

\* SHA-256 of the code in hexadecimal: the digest stands for the code it
\* was computed from, two codes having the same digest only if they are
\* the same code
hashCode(c) == <<"SHA-256">> \o c

\* variant: the digest of the input is compared with the stored constant
verifyAccessCodeStored(c) ==
  LET inputHash == hashCode(c)
  IN inputHash = correctHash

verifyAccessCode(c) ==
  LET inputHash == hashCode(c)
      expectedHash == hashCode(CorrectCode)
  IN inputHash = expectedHash

\* the item that setAuthenticated(value) leaves in localStorage at time t
setAuthenticated(value, t) ==
  IF value THEN <<DateNowToString(t)>> ELSE <<>>

\* variant: the item is compared with undefined, which getItem never
\* returns
isAuthenticatedUndefined(st) == TRUE

\* isAuthenticated() on the item st
isAuthenticated(st) == st # <<>>

\* the item that logout() leaves in localStorage
logout == <<>>

\* values typed into the code input
CodeInputs ==
  { <<>>, <<" ", " ">>, <<"w", "r", "o", "n", "g">>, CorrectCode,
    CorrectCode \o <<" ">>, SubSeq(CorrectCode, 1, Len(CorrectCode) - 1) }

----------------------------------------------------------------------------
(* App and LoginScreen. *)

\* the useEffect of App at load
AppMount ==
  /\ authenticated = <<>>
  /\ authenticated' = <<isAuthenticated(storage)>>
  /\ lastOp' = [name |-> "appMount", matched |-> 0]
  /\ UNCHANGED <<storage, code, isLoading, error, isUnlocking, verifying,
                 unlockTimers, now>>
  /\ UNCHANGED indexVars

\* LoginScreen is shown and its input and button are enabled
LoginEnabled ==
  /\ authenticated = <<FALSE>>
  /\ ~(isLoading \/ isUnlocking)

\* onChange of the code input
ChangeCode(v) ==
  /\ LoginEnabled
  /\ code' = v
  /\ error' = ""
  /\ lastOp' = Other
  /\ UNCHANGED <<storage, authenticated, isLoading, isUnlocking, verifying,
                 unlockTimers, now>>
  /\ UNCHANGED indexVars

\* variant: the code is tested for emptiness without trim()
LoginSubmitUntrimmed ==
  /\ LoginEnabled
  /\ IF code = <<>>
     THEN /\ error' = "Inserisci il codice di accesso"
          /\ lastOp' = [name |-> "loginEmpty", matched |-> 0]
          /\ UNCHANGED <<isLoading, verifying>>
     ELSE /\ isLoading' = TRUE
          /\ error' = ""
          /\ verifying' = <<code>>
          /\ lastOp' = [name |-> "loginSubmit", matched |-> 0]
  /\ UNCHANGED <<storage, authenticated, code, isUnlocking, unlockTimers,
                 now>>
  /\ UNCHANGED indexVars

\* LoginScreen.handleSubmit up to its await
LoginSubmit ==
  /\ LoginEnabled
  /\ IF Trim(code) = <<>>
     THEN /\ error' = "Inserisci il codice di accesso"
          /\ lastOp' = [name |-> "loginEmpty", matched |-> 0]
          /\ UNCHANGED <<isLoading, verifying>>
     ELSE /\ isLoading' = TRUE
          /\ error' = ""
          /\ verifying' = <<code>>
          /\ lastOp' = [name |-> "loginSubmit", matched |-> 0]
  /\ UNCHANGED <<storage, authenticated, code, isUnlocking, unlockTimers,
                 now>>
  /\ UNCHANGED indexVars

\* variant: setAuthenticated(true) is called before the result is tested
VerifyResolveEager ==
  /\ verifying # <<>>
  /\ LET isValid == verifyAccessCode(verifying[1])
     IN /\ storage' = setAuthenticated(TRUE, now)
        /\ IF isValid
           THEN /\ isUnlocking' = TRUE
                /\ unlockTimers' = Append(unlockTimers,
                     [kind |-> "unlock", delay |-> UnlockDelay,
                      regAt |-> now])
                /\ UNCHANGED <<error, isLoading>>
           ELSE /\ error' = "Codice di accesso non valido"
                /\ isLoading' = FALSE
                /\ UNCHANGED <<isUnlocking, unlockTimers>>
        /\ lastOp' = [name |-> "verify", matched |-> IF isValid THEN 1 ELSE 0]
  /\ verifying' = <<>>
  /\ UNCHANGED <<authenticated, code, now>>
  /\ UNCHANGED indexVars

\* variant: the wrong-code branch leaves isLoading set
VerifyResolveStuck ==
  /\ verifying # <<>>
  /\ LET isValid == verifyAccessCode(verifying[1])
     IN /\ IF isValid
           THEN /\ isUnlocking' = TRUE
                /\ storage' = setAuthenticated(TRUE, now)
                /\ unlockTimers' = Append(unlockTimers,
                     [kind |-> "unlock", delay |-> UnlockDelay,
                      regAt |-> now])
                /\ UNCHANGED <<error, isLoading>>
           ELSE /\ error' = "Codice di accesso non valido"
                /\ UNCHANGED <<isLoading, isUnlocking, storage,
                               unlockTimers>>
        /\ lastOp' = [name |-> "verify", matched |-> IF isValid THEN 1 ELSE 0]
  /\ verifying' = <<>>
  /\ UNCHANGED <<authenticated, code, now>>
  /\ UNCHANGED indexVars

\* LoginScreen.handleSubmit from its await on, verifyAccessCode having
\* returned
VerifyResolve ==
  /\ verifying # <<>>
  /\ LET isValid == verifyAccessCode(verifying[1])
     IN /\ IF isValid
           THEN /\ isUnlocking' = TRUE
                /\ storage' = setAuthenticated(TRUE, now)
                /\ unlockTimers' = Append(unlockTimers,
                     [kind |-> "unlock", delay |-> UnlockDelay,
                      regAt |-> now])
                /\ UNCHANGED <<error, isLoading>>
           ELSE /\ error' = "Codice di accesso non valido"
                /\ isLoading' = FALSE
                /\ UNCHANGED <<isUnlocking, storage, unlockTimers>>
        /\ lastOp' = [name |-> "verify", matched |-> IF isValid THEN 1 ELSE 0]
  /\ verifying' = <<>>
  /\ UNCHANGED <<authenticated, code, now>>
  /\ UNCHANGED indexVars

\* LoginScreen.handleSubmit from its await on, verifyAccessCode having
\* thrown (crypto.subtle is not there outside a secure context)
VerifyReject ==
  /\ verifying # <<>>
  /\ error' = "Errore durante la verifica"
  /\ isLoading' = FALSE
  /\ verifying' = <<>>
  /\ lastOp' = [name |-> "verifyError", matched |-> 0]
  /\ UNCHANGED <<storage, authenticated, code, isUnlocking, unlockTimers,
                 now>>
  /\ UNCHANGED indexVars

\* the callback of LoginScreen runs onLoginSuccess, which is
\* App.handleLoginSuccess; App shows Index and LoginScreen unmounts
UnlockTimeout ==
  /\ unlockTimers # <<>>
  /\ now > unlockTimers[1].regAt
  /\ authenticated' = <<TRUE>>
  /\ unlockTimers' = Tail(unlockTimers)
  /\ code' = <<>>
  /\ isLoading' = FALSE
  /\ error' = ""
  /\ isUnlocking' = FALSE
  /\ lastOp' = [name |-> "unlockTimeout", matched |-> 0]
  /\ UNCHANGED <<storage, verifying, now>>
  /\ UNCHANGED indexVars

\* variant: the marker is removed and the state of App is left as it is
handleLogoutMarkerOnly ==
  /\ authenticated = <<TRUE>>
  /\ storage' = logout
  /\ lastOp' = [name |-> "handleLogout", matched |-> 0]
  /\ UNCHANGED <<authenticated, code, isLoading, error, isUnlocking,
                 verifying, unlockTimers, now>>
  /\ UNCHANGED indexVars

\* App.handleLogout; App shows LoginScreen, which mounts
handleLogout ==
  /\ authenticated = <<TRUE>>
  /\ storage' = logout
  /\ authenticated' = <<FALSE>>
  /\ lastOp' = [name |-> "handleLogout", matched |-> 0]
  /\ UNCHANGED <<code, isLoading, error, isUnlocking, verifying,
                 unlockTimers, now>>
  /\ UNCHANGED indexVars

\* the page at load, with or without the token of an earlier login
InitAuth ==
  /\ contents = initialContents
  /\ editingContent = <<>>
  /\ deleteDialog = ClosedDialog
  /\ formData = EmptyForm
  /\ errors = NoErrors
  /\ operation = "null"
  /\ isAnimating = FALSE
  /\ calls = 0
  /\ timers = <<>>
  /\ animTimers = <<>>
  /\ now = Date20240116 + 1
  /\ toast = ""
  /\ lastOp = Other
  /\ storage \in {<<>>} \cup {<<DateNowToString(t)>> : t \in 0..Date20240116}
  /\ authenticated = <<>>
  /\ LoginMounted

NextAuth ==
  \/ Tick
  \/ AppMount
  \/ \E v \in CodeInputs : ChangeCode(v)
  \/ LoginSubmit
  \/ VerifyResolve
  \/ VerifyReject
  \/ UnlockTimeout
  \/ handleLogout

SpecAuth == InitAuth /\ [][NextAuth]_vars

----------------------------------------------------------------------------
(* auth as a module: its exported functions called in any order.           *)

\* a call of setAuthenticated(value)
CallSetAuthenticated(value) ==
  /\ storage' = setAuthenticated(value, now)
  /\ lastOp' = [name |-> "setAuthenticated",
                 matched |-> IF value THEN 1 ELSE 0]
  /\ UNCHANGED <<authenticated, code, isLoading, error, isUnlocking,
                 verifying, unlockTimers, now>>
  /\ UNCHANGED indexVars

\* a call of logout()
CallLogout ==
  /\ storage' = logout
  /\ lastOp' = [name |-> "logout", matched |-> 0]
  /\ UNCHANGED <<authenticated, code, isLoading, error, isUnlocking,
                 verifying, unlockTimers, now>>
  /\ UNCHANGED indexVars

\* a call of isAuthenticated(), its result kept as App keeps it
CallIsAuthenticated ==
  /\ authenticated' = <<isAuthenticated(storage)>>
  /\ lastOp' = [name |-> "isAuthenticated",
                 matched |-> IF isAuthenticated(storage) THEN 1 ELSE 0]
  /\ UNCHANGED <<storage, code, isLoading, error, isUnlocking, verifying,
                 unlockTimers, now>>
  /\ UNCHANGED indexVars

NextGate ==
  \/ Tick
  \/ \E value \in BOOLEAN : CallSetAuthenticated(value)
  \/ CallLogout
  \/ CallIsAuthenticated

SpecGate == InitAuth /\ [][NextGate]_vars

----------------------------------------------------------------------------
(* Properties of the content collection. *)

MutationKinds == {"create", "update", "delete"}

RequestNames == {"submitCreate", "submitUpdate", "handleDelete"}

MutationNames == {"createTimeout", "updateTimeout", "deleteTimeout"}

SubmitNames == {"submitCreate", "submitUpdate", "submitInvalid"}

\* C1: in every reachable state no two records of the collection have the
\* same id.
C1_UniqueIds ==
  \A i, j \in 1..Len(contents) : contents[i].id = contents[j].id => i = j

C3_UpdateAbsentFails ==
  [][ (/\ lastOp'.name = "updateTimeout"
       /\ \E i \in 1..Len(timers) :
            /\ timers[i].kind = "update"
            /\ timers' = RemoveAt(timers, i)
            /\ \A k \in 1..Len(contents) : contents[k].id # timers[i].id)
      => /\ contents' = contents
         /\ toast' # "Contenuto aggiornato!"
    ]_vars

\* C4: a submission of the form whose fields fail validation sets the
\* per-field errors, leaves the collection unchanged and registers no
\* callback.
C4_InvalidSubmission ==
  [][ (lastOp'.name \in SubmitNames /\ validate(formData) # NoErrors)
      => /\ errors' = validate(formData)
         /\ DOMAIN errors' # {}
         /\ \A f \in DOMAIN errors' : errors'[f] # NoError
         /\ contents' = contents
         /\ timers' = timers
         /\ animTimers' = animTimers
    ]_vars

\* a submission in edit mode with two invalid fields has been refused
C4_Witness ==
  /\ lastOp.name = "submitInvalid"
  /\ editingContent # <<>>
  /\ DOMAIN errors = {"title", "description"}
  /\ timers = <<>>
  /\ contents = initialContents

\* the positions of the records with the given id
Positions(id) == {k \in 1..Len(contents) : contents[k].id = id}

\* seq is made of the records of contents at the positions of keep, in the
\* order of contents
IsRestriction(seq, keep) ==
  /\ Len(seq) = Cardinality(keep)
  /\ \A k \in 1..Len(seq) :
       \E p \in keep :
         /\ Cardinality({q \in keep : q < p}) = k - 1
         /\ seq[k] = contents[p]

\* C5: an update of a record of the collection keeps the record's id,
\* createdAt and position, gives it the submitted title, description and
\* category, and leaves every other record and the length of the collection
\* unchanged.
C5_UpdateFrame ==
  [][ lastOp'.name = "updateTimeout" =>
        \E i \in 1..Len(timers) :
          /\ timers[i].kind = "update"
          /\ timers' = RemoveAt(timers, i)
          /\ Positions(timers[i].id) # {} =>
               /\ Len(contents') = Len(contents)
               /\ \E k \in Positions(timers[i].id) :
                    /\ contents'[k].id = contents[k].id
                    /\ contents'[k].createdAt = contents[k].createdAt
                    /\ contents'[k].title = timers[i].data.title
                    /\ contents'[k].description = timers[i].data.description
                    /\ contents'[k].category = timers[i].data.category
                    /\ \A m \in (1..Len(contents)) \ {k} :
                         contents'[m] = contents[m]
    ]_vars

\* C6: when a delete has completed, the collection holds no record with the
\* deleted id, and the records that remain are the other records of the
\* collection, unchanged and in their order.
C6_DeleteRemoves ==
  [][ lastOp'.name = "deleteTimeout" =>
        \E i \in 1..Len(timers) :
          /\ timers[i].kind = "delete"
          /\ timers' = RemoveAt(timers, i)
          /\ \A k \in 1..Len(contents') :
               contents'[k].id # timers[i].contentId
          /\ IsRestriction(contents',
               (1..Len(contents)) \ Positions(timers[i].contentId))
    ]_vars

\* a delete has removed a record and left another one
C6_Witness ==
  /\ lastOp.name = "deleteTimeout"
  /\ lastOp.matched = 1
  /\ Len(contents) >= 1

\* C7: a delete of an id that is not in the collection, the second of two
\* confirmations of the same deletion included, leaves the collection as it
\* was and ends as every delete does, with no error.
C7_DeleteIdempotent ==
  [][ lastOp'.name = "deleteTimeout" =>
        \E i \in 1..Len(timers) :
          /\ timers[i].kind = "delete"
          /\ timers' = RemoveAt(timers, i)
          /\ Positions(timers[i].contentId) = {} =>
               /\ contents' = contents
               /\ toast' = "Contenuto eliminato!"
               /\ deleteDialog' = ClosedDialog
    ]_vars

\* the second of two confirmations of one deletion has completed
C7_Witness ==
  /\ lastOp.name = "deleteTimeout"
  /\ lastOp.matched = 0
  /\ Len(contents) = Len(initialContents) - 1

\* C8: a create that completes puts the new record at the head of the
\* collection, followed by the collection as it was; creates complete in
\* the order of their submission, so that the record submitted later ends
\* up before the one submitted earlier.
C8_CreatePrepends ==
  [][ lastOp'.name = "createTimeout" =>
        \E i \in 1..Len(timers) :
          /\ timers[i].kind = "create"
          /\ timers' = RemoveAt(timers, i)
          /\ contents' = <<timers[i].newContent>> \o contents
          /\ \A j \in 1..(i - 1) : timers[j].kind # "create"
    ]_vars

\* two creates have completed, the one submitted later at the head
C8_Witness ==
  /\ lastOp.name = "createTimeout"
  /\ Len(contents) = Len(initialContents) + 2
  /\ contents[1].createdAt > contents[2].createdAt
  /\ SubSeq(contents, 3, Len(contents)) = initialContents

\* C9: in every reachable state the collection is ordered newest first: of
\* two records, the one earlier in the collection has a createdAt that is
\* greater than or equal to that of the later one.
C9_NewestFirst ==
  \A i, j \in 1..Len(contents) :
    i < j => contents[i].createdAt >= contents[j].createdAt

----------------------------------------------------------------------------
(* Properties of validate and of the fields of the records. *)

\* the positions of s that hold a character other than white space
Inked(s) == {k \in 1..Len(s) : s[k] \notin WhiteSpace}

\* the number of characters of s from its first to its last character
\* that is not white space
CoreLen(s) ==
  IF Inked(s) = {} THEN 0
  ELSE (CHOOSE k \in Inked(s) : \A m \in Inked(s) : m <= k)
       - (CHOOSE k \in Inked(s) : \A m \in Inked(s) : k <= m) + 1

\* C11: validate reports a title error exactly when the title without its
\* surrounding white space has fewer than 3 or more than 100 characters,
\* and a description error exactly when the description without its
\* surrounding white space has fewer than 10 characters.
C11_ValidateLengths ==
  lastOp.name = "blur" =>
    /\ "title" \in DOMAIN errors <=>
         \/ CoreLen(formData.title) < 3
         \/ CoreLen(formData.title) > 100
    /\ "description" \in DOMAIN errors <=> CoreLen(formData.description) < 10

\* validate has refused a title of two characters between spaces and
\* passed a description of ten characters between spaces
C11_Witness ==
  /\ lastOp.name = "blur"
  /\ formData.title = <<" ", "a", "b", " ">>
  /\ "title" \in DOMAIN errors
  /\ Len(formData.description) = 12
  /\ "description" \notin DOMAIN errors

\* s has no white space at its ends
NoSurroundingSpace(s) == s = <<>> \/ (s[1] \notin WhiteSpace /\ s[Len(s)] \notin WhiteSpace)

\* C12: in every reachable state every record of the collection has a title
\* of 3 to 100 characters and a description of at least 10 characters, both
\* without surrounding white space, and a category of the enumerated set.
C12_RecordsValid ==
  \A k \in 1..Len(contents) :
    /\ NoSurroundingSpace(contents[k].title)
    /\ Len(contents[k].title) >= 3
    /\ Len(contents[k].title) <= 100
    /\ NoSurroundingSpace(contents[k].description)
    /\ Len(contents[k].description) >= 10
    /\ contents[k].category \in categories

\* an update has stored a title that was typed between spaces
C12_Witness ==
  /\ lastOp.name = "updateTimeout"
  /\ \E k \in 1..Len(contents) :
       /\ contents[k].id = "1"
       /\ contents[k].title = <<"a", "b", "c">>
       /\ Len(contents[k].description) = 10

----------------------------------------------------------------------------
(* Properties of the dates of the records. *)

\* C13: the record a create has added has its createdAt equal to its
\* updatedAt.
C13_CreatedEqualsUpdated ==
  lastOp.name = "createTimeout" =>
    contents[1].createdAt = contents[1].updatedAt

\* C14: in every reachable state every record of the collection has its
\* createdAt less than or equal to its updatedAt (the clock of the model
\* never goes backwards).
C14_CreatedBeforeUpdated ==
  \A k \in 1..Len(contents) : contents[k].createdAt <= contents[k].updatedAt

\* an update has moved the updatedAt of a seed record past its createdAt
C14_Witness ==
  /\ lastOp.name = "updateTimeout"
  /\ \E k \in 1..Len(contents) :
       /\ contents[k].id = "1"
       /\ contents[k].createdAt = Date20240115
       /\ contents[k].updatedAt > Date20240116

----------------------------------------------------------------------------
(* Properties of the life of a record. *)

\* the ids of the records of a collection
Ids(seq) == {seq[k].id : k \in 1..Len(seq)}

\* C16: an id enters the collection only when a create completes and
\* leaves it only when a delete completes; an update adds no record,
\* removes none and leaves every id at its position, so that it never
\* brings back an id that was deleted.
C16_Lifecycle ==
  [][ /\ Ids(contents') \ Ids(contents) # {} =>
           /\ lastOp'.name = "createTimeout"
           /\ Len(contents') = Len(contents) + 1
      /\ Ids(contents) \ Ids(contents') # {} =>
           lastOp'.name = "deleteTimeout"
      /\ Len(contents') > Len(contents) => lastOp'.name = "createTimeout"
      /\ Len(contents') < Len(contents) => lastOp'.name = "deleteTimeout"
      /\ lastOp'.name = "updateTimeout" =>
           /\ Len(contents') = Len(contents)
           /\ \A k \in 1..Len(contents) : contents'[k].id = contents[k].id
    ]_vars

\* an update of an id that was deleted has completed and the id is still
\* out of the collection
C16_Witness ==
  /\ lastOp.name = "updateTimeout"
  /\ lastOp.matched = 0
  /\ Len(contents) = Len(initialContents) - 1
  /\ toast = "Contenuto aggiornato!"

----------------------------------------------------------------------------
(* Properties of the access gate. *)

\* C17: verifyAccessCode returns true exactly when its input is the
\* configured code, the one whose digest it computes for the comparison:
\* true for that code and false for every other input.
C17_VerifyExact ==
  [][ lastOp'.name = "verify" =>
        /\ verifying # <<>>
        /\ lastOp'.matched = 1 <=> verifying[1] = CorrectCode
        /\ isUnlocking' <=> verifying[1] = CorrectCode
    ]_vars

\* the configured code has been verified
C17_Witness ==
  /\ lastOp.name = "verify"
  /\ lastOp.matched = 1
  /\ code = CorrectCode
  /\ isUnlocking

\* C18: the marker changes only in a call of setAuthenticated or logout;
\* after setAuthenticated(true) it is present, after setAuthenticated(false)
\* and after logout() it is absent, both leaving the same item, also when
\* it was absent before; isAuthenticated() returns true exactly when the
\* marker is present.
C18_MarkerFollowsCalls ==
  [][ /\ (lastOp'.name = "setAuthenticated" /\ lastOp'.matched = 1) =>
           (storage' # <<>> /\ isAuthenticated(storage'))
      /\ (lastOp'.name = "setAuthenticated" /\ lastOp'.matched = 0) =>
           (storage' = <<>> /\ ~isAuthenticated(storage'))
      /\ lastOp'.name = "logout" =>
           (storage' = <<>> /\ ~isAuthenticated(storage'))
      /\ lastOp'.name = "isAuthenticated" =>
           /\ storage' = storage
           /\ authenticated' = <<storage # <<>> >>
           /\ lastOp'.matched = 1 <=> storage # <<>>
      /\ lastOp'.name \notin {"setAuthenticated", "logout"} =>
           storage' = storage
    ]_vars

\* isAuthenticated() has returned false after a logout that followed a
\* setAuthenticated(true)
C18_Witness ==
  /\ lastOp.name = "isAuthenticated"
  /\ lastOp.matched = 0
  /\ authenticated = <<FALSE>>
  /\ storage = <<>>
  /\ now > Date20240116 + 1

\* C19: in the login flow the marker goes from absent to present only in
\* the step in which verifyAccessCode has returned true for the submitted
\* code.
C19_MarkerAfterVerify ==
  [][ (storage' # storage /\ storage' # <<>>) =>
        /\ lastOp'.name = "verify"
        /\ verifying # <<>>
        /\ verifying[1] = CorrectCode
        /\ isLoading
    ]_vars

\* the marker has been set in a login that started without it
C19_Witness ==
  /\ lastOp.name = "verify"
  /\ authenticated = <<FALSE>>
  /\ storage = <<DateNowToString(now)>>
  /\ isUnlocking

\* C20: a submission of a wrong code ends with the message that the code
\* is not valid, no marker stored, App unauthenticated and the form
\* enabled again; a failure of the verification ends the same way with its
\* own message.
C20_WrongCode ==
  [][ /\ (lastOp'.name = "verify" /\ verifying # <<>>
          /\ verifying[1] # CorrectCode) =>
           /\ error' = "Codice di accesso non valido"
           /\ storage' = <<>>
           /\ ~isAuthenticated(storage')
           /\ authenticated' = <<FALSE>>
           /\ LoginEnabled'
           /\ verifying' = <<>>
      /\ lastOp'.name = "verifyError" =>
           /\ error' = "Errore durante la verifica"
           /\ storage' = <<>>
           /\ ~isAuthenticated(storage')
           /\ authenticated' = <<FALSE>>
           /\ LoginEnabled'
           /\ verifying' = <<>>
    ]_vars

\* a code one character short has been refused and the form is enabled
C20_Witness ==
  /\ lastOp.name = "verify"
  /\ lastOp.matched = 0
  /\ Len(code) = Len(CorrectCode) - 1
  /\ error = "Codice di accesso non valido"
  /\ storage = <<>>
  /\ LoginEnabled

\* the two ends of LoginScreen.handleSubmit before its await
LoginSubmitNames == {"loginEmpty", "loginSubmit"}

\* C21: a login submission whose code is empty or white space only ends
\* before verifyAccessCode is called: no verification is started, the
\* message asking for the code is set, the form stays enabled, and the
\* marker and the state of App are as they were.
C21_EmptyRejected ==
  [][ (lastOp'.name \in LoginSubmitNames /\ Trim(code) = <<>>) =>
        /\ lastOp'.name = "loginEmpty"
        /\ verifying = <<>> /\ verifying' = <<>>
        /\ error' = "Inserisci il codice di accesso"
        /\ isLoading' = FALSE
        /\ storage' = storage
        /\ authenticated' = authenticated
    ]_vars

\* a code of two spaces has been submitted and refused
C21_Witness ==
  /\ lastOp.name = "loginEmpty"
  /\ code = <<" ", " ">>
  /\ error = "Inserisci il codice di accesso"
  /\ verifying = <<>>
  /\ storage = <<>>

----------------------------------------------------------------------------
(* Properties of the delete dialog, edit mode and the deferred callbacks. *)

\* the pending callbacks of a kind
TimersOf(q, kind) == SelectSeq(q, LAMBDA t : t.kind = kind)

\* q2 is q1 with one callback registered at its end
IsAppend(q1, q2) ==
  /\ Len(q2) = Len(q1) + 1
  /\ SubSeq(q2, 1, Len(q1)) = q1

\* C22: a record leaves the collection only in the callback of a confirmed
\* deletion, which removes the records of the id it was confirmed for and
\* no other; a deletion is confirmed only in the open dialog and for the id
\* the dialog shows; the dialog is opened only for the id of a record that
\* is in the collection at that moment.
C22_DeleteProvenance ==
  [][ /\ (Len(contents') < Len(contents)
          \/ Ids(contents) \ Ids(contents') # {}) =>
           /\ lastOp'.name = "deleteTimeout"
           /\ \E i \in 1..Len(timers) :
                /\ timers[i].kind = "delete"
                /\ timers' = RemoveAt(timers, i)
                /\ Ids(contents) \ Ids(contents') = {timers[i].contentId}
                /\ contents' = SelectSeq(contents,
                                 LAMBDA c : c.id # timers[i].contentId)
      /\ TimersOf(timers', "delete") # TimersOf(timers, "delete") =>
           \/ /\ lastOp'.name = "handleDelete"
              /\ deleteDialog.isOpen
              /\ IsAppend(timers, timers')
              /\ timers'[Len(timers')].kind = "delete"
              /\ timers'[Len(timers')].contentId = deleteDialog.contentId
           \/ /\ lastOp'.name = "deleteTimeout"
              /\ \E i \in 1..Len(timers) :
                   timers[i].kind = "delete" /\ timers' = RemoveAt(timers, i)
      /\ (deleteDialog'.isOpen /\ deleteDialog' # deleteDialog) =>
           /\ deleteDialog'.contentId \in Ids(contents)
           /\ contents' = contents
    ]_vars

\* record "2" has been deleted through its dialog and record "1" is left
C22_Witness ==
  /\ lastOp.name = "deleteTimeout"
  /\ lastOp.matched = 1
  /\ Ids(contents) = {"1"}
  /\ ~deleteDialog.isOpen
  /\ timers = <<>>

\* C25: whenever editingContent is not null, the collection holds a record
\* with the id of editingContent.
C25_EditingPresent ==
  editingContent # <<>> => editingContent[1].id \in Ids(contents)

C27_CancelKeepsRecord ==
  [][ (/\ deleteDialog.isOpen
       /\ ~deleteDialog'.isOpen
       /\ lastOp'.name # "deleteTimeout") =>
        \A i \in 1..Len(timers) :
          ~(/\ timers[i].kind = "delete"
            /\ timers[i].contentId = deleteDialog.contentId)
    ]_vars

\* C28: when the callback of an update runs while a record of another id
\* is in edit mode, editingContent is left as it is.
C28_UpdateKeepsOtherEdit ==
  [][ lastOp'.name = "updateTimeout" =>
        \E i \in 1..Len(timers) :
          /\ timers[i].kind = "update"
          /\ timers' = RemoveAt(timers, i)
          /\ (editingContent # <<>>
              /\ editingContent[1].id # timers[i].id) =>
               editingContent' = editingContent
    ]_vars

\* the ids handleCreate can give within the bounds
CreateIds == {DateNowToString(t) : t \in Date20240116..MaxNow}

\* C29: a submission in create mode that passes validation registers one
\* callback, which carries the trimmed title and description and the
\* category of the form; the callback runs in the end, and when it runs it
\* adds its record to the collection, one record and once, and is pending
\* no more.
C29_CreateCompletes ==
  /\ \A id \in CreateIds :
       (\E i \in 1..Len(timers) :
          timers[i].kind = "create" /\ timers[i].newContent.id = id)
       ~> (\E k \in 1..Len(contents) : contents[k].id = id)
  /\ (timers # <<>>) ~> (timers = <<>>)
  /\ [][ /\ (/\ lastOp'.name \in SubmitNames
             /\ editingContent = <<>>
             /\ validate(formData) = NoErrors) =>
              /\ lastOp'.name = "submitCreate"
              /\ IsAppend(timers, timers')
              /\ timers'[Len(timers')].kind = "create"
              /\ timers'[Len(timers')].newContent.title = Trim(formData.title)
              /\ timers'[Len(timers')].newContent.description =
                   Trim(formData.description)
              /\ timers'[Len(timers')].newContent.category =
                   formData.category
              /\ contents' = contents
         /\ TimersOf(timers', "create") # TimersOf(timers, "create") =>
              lastOp'.name \in {"submitCreate", "createTimeout"}
         /\ lastOp'.name = "createTimeout" =>
              \E i \in 1..Len(timers) :
                /\ timers[i].kind = "create"
                /\ timers' = RemoveAt(timers, i)
                /\ contents' = <<timers[i].newContent>> \o contents
         /\ Len(contents') # Len(contents) =>
              /\ lastOp'.name = "createTimeout"
              /\ Len(contents') = Len(contents) + 1
     ]_vars

\* one submission has been made and its callback has run: the collection
\* has one record more, with the trimmed title of the form
C29_Witness ==
  /\ lastOp.name = "createTimeout"
  /\ calls = 1
  /\ timers = <<>>
  /\ Len(contents) = Len(initialContents) + 1
  /\ contents[1].title = <<"a", "b", "c">>
  /\ Tail(contents) = initialContents

----------------------------------------------------------------------------
(* Properties of useDatabaseAnimation. *)

\* the hook is idle
Idle == ~isAnimating /\ operation = "null"

\* C23: after the last call of triggerAnimation the hook reaches the idle
\* state, isAnimating false and operation null with no callback pending,
\* and stays in it; isAnimating is cleared by the callback registered with
\* animationDuration, which registers the callback of 1000 ms that sets
\* operation to null.
C23_EventuallyIdle ==
  /\ <>[](Idle /\ animTimers = <<>>)
  /\ [][ /\ (isAnimating /\ ~isAnimating') =>
              /\ animTimers # <<>>
              /\ animTimers[1].kind = "animEnd"
              /\ animTimers[1].delay = animationDuration
              /\ animTimers' = Append(Tail(animTimers),
                   [kind |-> "animReset", delay |-> ResetDelay,
                    regAt |-> now])
         /\ (operation # "null" /\ operation' = "null") =>
              /\ animTimers # <<>>
              /\ animTimers[1].kind = "animReset"
              /\ animTimers[1].delay = ResetDelay
              /\ animTimers' = Tail(animTimers)
     ]_vars

\* the hook is idle after MaxCalls calls, all their callbacks having run
C23_Witness ==
  /\ Idle
  /\ animTimers = <<>>
  /\ calls = MaxCalls

\* C24: in every reachable state of the hook, isAnimating = true implies
\* that operation is not null.
C24_AnimatingHasOperation == isAnimating => operation # "null"

----------------------------------------------------------------------------
(* Properties of App. *)

\* C30: whenever the authenticated state of App is true, the marker is in
\* storage.
C30_ShownImpliesMarker ==
  authenticated = <<TRUE>> => isAuthenticated(storage)

\* App shows Index after a login of this session, whose token is in storage
C30_Witness ==
  /\ authenticated = <<TRUE>>
  /\ lastOp.name = "unlockTimeout"
  /\ \E t \in (Date20240116 + 1)..MaxNow : storage = <<DateNowToString(t)>>

====
